---------------------------- MODULE Spec2Model ----------------------------
(***************************************************************************)
(* S33R: the news ingestion script (scripts/build_news_json.py), the       *)
(* archive compaction script (scripts/build_news_archive.py) and the       *)
(* trends script (scripts/build_trends_json.py).                           *)
(*                                                                         *)
(* Time is counted in ticks around the epoch (tick 0); a timestamp is a    *)
(* number of ticks and a day is one tick.  A month lasts MonthLen ticks    *)
(* and a year MonthsPerYear months; year 0 is the year of the epoch.       *)
(***************************************************************************)
EXTENDS Integers, Sequences, FiniteSets, TLC

VARIABLES
    recent,     \* data/news_recent.json
    monthly,    \* data/archive/monthly/<year>/<year>-<month>.json, by (year, month)
    yearly,     \* data/archive/yearly/<year>.json, by year
    outcome,    \* how the most recent script run ended
    runs,       \* archive runs made since the store or the archive last changed hands
    call        \* one call of a function under test: its arguments and its result

vars == <<recent, monthly, yearly, outcome, runs, call>>

-----------------------------------------------------------------------------
(* Bounds of the model *)

MaxLen == 2          \* longest list drawn as an input
MaxTs == 2           \* latest timestamp an input carries
PastSpan == 1        \* earliest timestamp an input carries is -PastSpan
DtSpan == 5          \* datetime represents the ticks -DtSpan .. DtSpan
MonthLen == 2        \* ticks of a month
MonthsPerYear == 2   \* months of a year
MaxRuns == 2         \* archive runs counted on an unchanged store
MaxCalls == 2        \* calls of the date parser on one item
MaxNews == 2         \* most entries of the news_recent.json the trends are built from

-----------------------------------------------------------------------------
(* Values *)

None == "None"                     \* Python's None in a text field
NoTs == <<>>                       \* published_ts: None; <<n>> is the number n
TooBig == DtSpan + 1               \* a number datetime.fromtimestamp rejects

YearLen == MonthLen * MonthsPerYear

NoPub == [kind |-> "none", local |-> 0, off |-> 0]
IsoUtc(t) == [kind |-> "iso_aware", local |-> t, off |-> 0]

\* A datetime: its wall-clock fields (as seconds) and its UTC offset.
NoDt == [known |-> FALSE, local |-> 0, off |-> 0]
Dt(local, off) == [known |-> TRUE, local |-> local, off |-> off]
Timestamp(dt) == dt.local - dt.off
YearOf(dt) == dt.local \div YearLen
MonthOf(dt) == ((dt.local % YearLen) \div MonthLen) + 1

Truthy(s) == s \notin {None, ""}

SeqUpTo(S, n) == UNION {[1..k -> S] : k \in 0..n}

Range(s) == {s[i] : i \in DOMAIN s}

-----------------------------------------------------------------------------
(* build_news_archive.py: the date parser *)

FromTimestampRaises(n) == n < 0 - DtSpan \/ n > DtSpan

\* An exception on its way to the caller, in the place of a datetime.
Raise(e) == [known |-> FALSE, local |-> 0, off |-> 0, raised |-> e]
IsRaise(r) == ~r.known /\ "raised" \in DOMAIN r

\* try: r / except caught: handler
Except(r, caught, handler) ==
    IF IsRaise(r) /\ r.raised \in caught THEN handler ELSE r

\* datetime.fromtimestamp(n, tz=timezone.utc)
fromtimestamp(n) ==
    IF n > DtSpan THEN Raise("OverflowError")
    ELSE IF n < 0 - DtSpan THEN Raise("ValueError")
    ELSE Dt(n, 0)

\* datetime.fromisoformat(s): an offset in the text stays the datetime's
\* offset; without one the datetime is naive (held here with offset 0).
fromisoformat(p) ==
    CASE p.kind = "iso_aware" -> Dt(p.local, p.off)
      [] p.kind = "iso_naive" -> Dt(p.local, 0)
      [] OTHER                -> Raise("ValueError")

\* datetime.strptime(s, fmt) for the two formats of the fallback
strptime(p, fmt) ==
    CASE fmt = "%Y-%m-%dT%H:%M:%S%z" /\ p.kind = "fmt_z"   -> Dt(p.local, p.off)
      [] fmt = "%Y-%m-%dT%H:%M:%S" /\ p.kind = "fmt_naive" -> Dt(p.local, 0)
      [] OTHER                                             -> Raise("ValueError")

\* dt.replace(tzinfo=timezone.utc): the fields stay, the offset becomes 0
replace_utc(r) == IF IsRaise(r) THEN r ELSE Dt(r.local, 0)

\* Mutant: the conversion of published_ts is not guarded by try/except.
parse_published_dt_unguarded(item) ==
    IF item.published_ts # NoTs THEN fromtimestamp(item.published_ts[1])
    ELSE Except(fromisoformat(item.published), {"ValueError"}, NoDt)

parse_published_dt(item) ==
    LET p == item.published
        by_text ==
            IF p.kind = "none" THEN NoDt
            ELSE Except(fromisoformat(p), {"ValueError"},
                 Except(replace_utc(strptime(p, "%Y-%m-%dT%H:%M:%S%z")),
                        {"ValueError"},
                 Except(replace_utc(strptime(p, "%Y-%m-%dT%H:%M:%S")),
                        {"ValueError"}, NoDt)))
    IN IF item.published_ts = NoTs THEN by_text
       ELSE Except(fromtimestamp(item.published_ts[1]),
                   {"OverflowError", "OSError", "ValueError"}, by_text)

-----------------------------------------------------------------------------
(* build_news_archive.py: merge_and_dedup *)

\* Mutant: the title is part of the key of an item with a link.
key_for_with_title(item) ==
    IF Truthy(item.link)
    THEN <<"link", item.link, item.title>>
    ELSE <<"title_source", item.title, item.source>>

key_for(item) ==
    IF Truthy(item.link)
    THEN <<"link", item.link, None>>
    ELSE <<"title_source", item.title, item.source>>

\* Mutant: the first item supplied under a key is kept (dict.setdefault).
DictSet_KeepFirst(merged, item) ==
    IF \E i \in DOMAIN merged : key_for(merged[i]) = key_for(item)
    THEN merged
    ELSE Append(merged, item)

\* Mutant: a replaced key moves to the end (del merged[k]; merged[k] = item).
DictSet_MoveToEnd(merged, item) ==
    Append(SelectSeq(merged, LAMBDA m : key_for(m) # key_for(item)), item)

\* merged[k] = item, the dict held as the sequence of its values in insertion
\* order: a key that is held keeps its place and takes the new value.
DictSet(merged, item) ==
    IF \E i \in DOMAIN merged : key_for(merged[i]) = key_for(item)
    THEN LET i == CHOOSE i \in DOMAIN merged : key_for(merged[i]) = key_for(item)
         IN [merged EXCEPT ![i] = item]
    ELSE Append(merged, item)

RECURSIVE DictFill(_, _)
DictFill(merged, items) ==
    IF items = <<>> THEN merged
    ELSE DictFill(DictSet(merged, Head(items)), Tail(items))

sort_key(it) ==
    LET dt == parse_published_dt(it) IN
    IF dt.known THEN Timestamp(dt)
    ELSE IF it.published_ts # NoTs THEN it.published_ts[1]
    ELSE 0

\* list.sort(key=..., reverse=True) on pairs <<key, item>>: descending by key
\* and stable: a pair goes behind every pair whose key is at least its own.
RECURSIVE insert_desc(_, _)
insert_desc(sorted, pair) ==
    IF sorted = <<>> THEN <<pair>>
    ELSE IF Head(sorted)[1] >= pair[1]
         THEN <<Head(sorted)>> \o insert_desc(Tail(sorted), pair)
         ELSE <<pair>> \o sorted

RECURSIVE sort_desc(_)
sort_desc(pairs) ==
    IF pairs = <<>> THEN <<>>
    ELSE insert_desc(sort_desc(SubSeq(pairs, 1, Len(pairs) - 1)), pairs[Len(pairs)])

RECURSIVE values(_)
values(pairs) ==
    IF pairs = <<>> THEN <<>> ELSE <<Head(pairs)[2]>> \o values(Tail(pairs))

RECURSIVE with_sort_key(_)
with_sort_key(items) ==
    IF items = <<>> THEN <<>>
    ELSE <<<<sort_key(Head(items)), Head(items)>>>> \o with_sort_key(Tail(items))

\* Mutant: the two lists are joined and sorted, no key is looked at.
merge_new_only(existing, new) ==
    values(sort_desc(with_sort_key(DictFill(<<>>, new))))

merge_without_dedup(existing, new) ==
    values(sort_desc(with_sort_key(existing \o new)))

merge_and_dedup(existing, new) ==
    values(sort_desc(with_sort_key(DictFill(<<>>, existing \o new))))

-----------------------------------------------------------------------------
(* Items *)

Item(link, title, source, ts, pub) ==
    [link |-> link, title |-> title, source |-> source,
     published_ts |-> ts, published |-> pub]

\* An item as build_news_json.py writes it: published and published_ts agree.
Dated(link, title, t) == Item(link, title, "s", <<t>>, IsoUtc(t))
Undated(link, title) == Item(link, title, "s", NoTs, NoPub)

\* The items handed to merge_and_dedup: one link with different titles and
\* dates, ties between keys, dates at and before the epoch, no date, a number
\* that is no date, no link (empty or None), and neither link nor title nor
\* source.
MergeItems ==
    { Dated("a", "t", MaxTs), Dated("a", "t", 0), Dated("a", "u", 0),
      Undated("c", "t"),
      Item("c", "t", "s", <<TooBig>>, NoPub),
      Item("", "t", "s", <<0>>, IsoUtc(0)),
      Item(None, "t", "s", <<0 - PastSpan>>, IsoUtc(0 - PastSpan)),
      Item(None, None, None, <<MaxTs>>, IsoUtc(MaxTs)) }

-----------------------------------------------------------------------------
(* The files *)

Missing == [kind |-> "missing", items |-> <<>>]
Unreadable == [kind |-> "unreadable", items |-> <<>>]   \* not JSON, or no permission
Invalid == [kind |-> "invalid", items |-> <<>>]         \* JSON, but no list of items
ListFile(items) == [kind |-> "list", items |-> items]   \* a bare list of items
Store(items) == [kind |-> "store", items |-> items]     \* {..., "items": [...]}

Years == {t \div YearLen : t \in (0 - DtSpan)..DtSpan}
MonthKeys == Years \X (1..MonthsPerYear)

NoArchiveMonthly == [k \in MonthKeys |-> Missing]
NoArchiveYearly == [y \in Years |-> Missing]

NoCall == [fn |-> "none"]
NoRun == [prog |-> "none", status |-> "none", months |-> {}, years |-> {}]

-----------------------------------------------------------------------------
(* build_news_archive.py: reading a file, bucketing, and main *)

\* load_json_list raises: json.load on what is no JSON, or a ValueError on
\* JSON that is neither a list nor an object with a list under "items".
load_raises(file) == file.kind \in {"unreadable", "invalid"}

load_json_list(file) == IF file.kind = "missing" THEN <<>> ELSE file.items

month_key(item) ==
    LET dt == parse_published_dt(item) IN <<YearOf(dt), MonthOf(dt)>>
year_key(item) == YearOf(parse_published_dt(item))

\* Mutant: an item without date is not passed over; it goes to the month of
\* the epoch.
bucket_items_by_month_undated(items) ==
    [k \in {month_key(it) : it \in Range(items)} |->
        SelectSeq(items, LAMBDA it : month_key(it) = k)]

\* The buckets, as functions from the keys that occur to the items in order.
bucket_items_by_month(items) ==
    LET dated == SelectSeq(items, LAMBDA it : parse_published_dt(it).known)
    IN [k \in {month_key(it) : it \in Range(dated)} |->
           SelectSeq(dated, LAMBDA it : month_key(it) = k)]

\* Mutant: the items without a date are bucketed by year too.
bucket_items_by_year_undated(items) ==
    [y \in {year_key(it) : it \in Range(items)} |->
        SelectSeq(items, LAMBDA it : year_key(it) = y)]

bucket_items_by_year(items) ==
    LET dated == SelectSeq(items, LAMBDA it : parse_published_dt(it).known)
    IN [y \in {year_key(it) : it \in Range(dated)} |->
           SelectSeq(dated, LAMBDA it : year_key(it) = y)]

MonthBefore(k1, k2) == k1[1] < k2[1] \/ (k1[1] = k2[1] /\ k1[2] < k2[2])

\* sorted(buckets.items()): the keys in ascending order
RECURSIVE sorted_months(_)
sorted_months(S) ==
    IF S = {} THEN <<>>
    ELSE LET k == CHOOSE k \in S : \A o \in S \ {k} : MonthBefore(k, o)
         IN <<k>> \o sorted_months(S \ {k})

RECURSIVE sorted_years(_)
sorted_years(S) ==
    IF S = {} THEN <<>>
    ELSE LET y == CHOOSE y \in S : \A o \in S : y <= o
         IN <<y>> \o sorted_years(S \ {y})

\* One of main's two loops: for each key in order, load the file, merge the
\* bucket into it, save and report the file.  A load that raises ends the
\* run there.
RECURSIVE update_files(_, _, _, _)
update_files(files, saved, todo, buckets) ==
    IF todo = <<>> THEN [files |-> files, saved |-> saved, raised |-> FALSE]
    ELSE LET k == Head(todo) IN
         IF load_raises(files[k])
         THEN [files |-> files, saved |-> saved, raised |-> TRUE]
         ELSE update_files(
                  [files EXCEPT ![k] = ListFile(
                       merge_and_dedup(load_json_list(files[k]), buckets[k]))],
                  saved \cup {k}, Tail(todo), buckets)

\* How a run ended, and the files it reported as updated.
Ended(prog, status, months, years) ==
    [prog |-> prog, status |-> status, months |-> months, years |-> years]

\* main of build_news_archive.py
Compact ==
    /\ runs < MaxRuns
    /\ runs' = runs + 1
    /\ UNCHANGED <<recent, call>>
    /\ IF recent.kind = "missing"
       THEN /\ outcome' = Ended("archive", "no_input", {}, {})
            /\ UNCHANGED <<monthly, yearly>>
       ELSE IF recent.items = <<>>
       THEN /\ outcome' = Ended("archive", "nothing", {}, {})
            /\ UNCHANGED <<monthly, yearly>>
       ELSE \E monthly_buckets \in {bucket_items_by_month(recent.items)},
               yearly_buckets \in {bucket_items_by_year(recent.items)} :
            \E m \in {update_files(monthly, {},
                          sorted_months(DOMAIN monthly_buckets), monthly_buckets)} :
            IF m.raised
            THEN /\ monthly' = m.files
                 /\ yearly' = yearly
                 /\ outcome' = Ended("archive", "error", m.saved, {})
            ELSE \E y \in {update_files(yearly, {},
                               sorted_years(DOMAIN yearly_buckets), yearly_buckets)} :
                 /\ monthly' = m.files
                 /\ yearly' = y.files
                 /\ outcome' = Ended("archive",
                                     IF y.raised THEN "error" ELSE "ok",
                                     m.saved, y.saved)

-----------------------------------------------------------------------------
(* build_news_json.py: main *)

\* A feed entry after feedparser and parse_published: its link, its stripped
\* title and its publication time in UTC (NoTs: none could be parsed).
Entry(link, title, pub) == [link |-> link, title |-> title, pub |-> pub]

OrZero(ts) == IF ts = NoTs THEN 0 ELSE ts[1]      \* (published_ts or 0)

\* Mutant: every assignment adds a value, also under a link that is held.
LinkDictSet_Append(items_by_link, item) == Append(items_by_link, item)

\* items_by_link[link] = item, the dict held as the sequence of its values
LinkDictSet(items_by_link, item) ==
    IF \E i \in DOMAIN items_by_link : items_by_link[i].link = item.link
    THEN LET i == CHOOSE i \in DOMAIN items_by_link :
                      items_by_link[i].link = item.link
         IN [items_by_link EXCEPT ![i] = item]
    ELSE Append(items_by_link, item)

LinkDictGet(items_by_link, link) ==
    SelectSeq(items_by_link, LAMBDA it : it.link = link)

\* The loop over the items of the previous news_recent.json
RECURSIVE preload(_, _, _)
preload(items_by_link, existing_items, cutoff) ==
    IF existing_items = <<>> THEN items_by_link
    ELSE LET item == Head(existing_items)
             pub_ts == item.published_ts
             expired == /\ pub_ts # NoTs
                        /\ ~FromTimestampRaises(pub_ts[1])
                        /\ pub_ts[1] < cutoff
         IN preload(IF ~Truthy(item.link) \/ expired
                    THEN items_by_link
                    ELSE LinkDictSet(items_by_link, item),
                    Tail(existing_items), cutoff)

\* The decision on an entry whose link is held already
replaces(item, existing) == OrZero(item.published_ts) > OrZero(existing.published_ts)

\* Mutant: the entries of the feeds are taken whatever their age.
skipped_without_cutoff(entry, cutoff) ==
    ~Truthy(entry.link) \/ ~Truthy(entry.title)

\* An entry the loop passes over: no link, no title, or older than the cutoff
skipped(entry, cutoff) ==
    \/ ~Truthy(entry.link)
    \/ ~Truthy(entry.title)
    \/ (entry.pub # NoTs /\ entry.pub[1] < cutoff)

\* The item built from an entry of the feed "s"
item_of(entry) ==
    Item(entry.link, entry.title, "s", entry.pub,
         IF entry.pub = NoTs THEN NoPub ELSE IsoUtc(entry.pub[1]))

\* The loop over the entries of the feeds
RECURSIVE fetch(_, _, _)
fetch(items_by_link, entries, cutoff) ==
    IF entries = <<>> THEN items_by_link
    ELSE LET entry == Head(entries)
             item == item_of(entry)
             existing == LinkDictGet(items_by_link, entry.link)
         IN fetch(IF skipped(entry, cutoff) THEN items_by_link
                  ELSE IF existing = <<>> THEN Append(items_by_link, item)
                  ELSE IF replaces(item, existing[1])
                       THEN LinkDictSet(items_by_link, item)
                       ELSE items_by_link,
                  Tail(entries), cutoff)

RECURSIVE with_ts_or_zero(_)
with_ts_or_zero(items) ==
    IF items = <<>> THEN <<>>
    ELSE <<<<OrZero(Head(items).published_ts), Head(items)>>>>
             \o with_ts_or_zero(Tail(items))

ingest(previous, entries, now, days_back) ==
    LET cutoff == now - days_back
    IN values(sort_desc(with_ts_or_zero(
           fetch(preload(<<>>, load_json_list(previous), cutoff), entries, cutoff))))

\* The object written to news_recent.json
out_data(items_list) ==
    [kind |-> "store", total_items |-> Len(items_list), items |-> items_list]

\* The entries the feeds may hold: one link at several times and without
\* one, a second link before the epoch, an entry without link and one
\* without title.
FeedEntries ==
    { Entry("a", "t", <<MaxTs>>), Entry("a", "t", <<0>>), Entry("a", "t", NoTs),
      Entry("b", "t", <<0 - PastSpan>>), Entry("b", "t", <<0>>),
      Entry(None, "t", <<MaxTs>>), Entry("b", "", <<MaxTs>>) }

NowVals == {MaxTs}
DaysBackVals == {1, MaxTs + PastSpan}     \* DAYS_BACK, from the environment

Ingest ==
    /\ \E entries \in SeqUpTo(FeedEntries, MaxLen),
          now \in NowVals, days_back \in DaysBackVals :
       \E items_list \in {ingest(recent, entries, now, days_back)} :
           recent' = out_data(items_list)
    /\ outcome' = Ended("ingest", "ok", {}, {})
    /\ runs' = 0
    /\ UNCHANGED <<monthly, yearly, call>>

-----------------------------------------------------------------------------
(* The system: ingestion runs and archive runs, in any order *)

\* What a news_recent.json found at the start may hold.
StoreItems ==
    { Dated("a", "u", 0), Undated("c", "t"),
      Item("c", "t", "s", <<TooBig>>, NoPub),
      Item(None, None, None, <<MaxTs>>, IsoUtc(MaxTs)) }

InitStores == {Missing} \cup {Store(s) : s \in SeqUpTo(StoreItems, MaxLen)}

Init ==
    /\ recent \in InitStores
    /\ monthly = NoArchiveMonthly
    /\ yearly = NoArchiveYearly
    /\ outcome = NoRun
    /\ runs = 0
    /\ call = NoCall

Next == Ingest \/ Compact

Spec == Init /\ [][Next]_vars

-----------------------------------------------------------------------------
(* Archive runs over an archive and a store found in any state *)

DiskItems ==
    { Dated("a", "t", MaxTs), Dated("a", "u", 0), Dated("b", "t", 0),
      Dated("b", "t", 0 - PastSpan), Undated("c", "t"),
      Item(None, None, None, <<MaxTs>>, IsoUtc(MaxTs)) }

\* A partition file left by something else than a run: a key twice, out of
\* order, an item without date.
OnDisk ==
    << Dated("a", "u", 0), Dated("d", "t", 0 - PastSpan),
       Dated("d", "t", MaxTs), Undated("c", "t") >>

DiskFiles == {Missing, ListFile(OnDisk), Unreadable, Invalid}

DiskMonths == {month_key(it) : it \in {d \in DiskItems : parse_published_dt(d).known}}
DiskYears == {year_key(it) : it \in {d \in DiskItems : parse_published_dt(d).known}}

Faulty(m, y) ==
    Cardinality({k \in DOMAIN m : load_raises(m[k])})
        + Cardinality({k \in DOMAIN y : load_raises(y[k])})

InitDisk ==
    /\ recent \in {Store(s) : s \in SeqUpTo(DiskItems, MaxLen)}
    /\ \E m \in [DiskMonths -> DiskFiles], y \in [DiskYears -> DiskFiles] :
           /\ Faulty(m, y) <= 1
           /\ monthly = [k \in MonthKeys |-> IF k \in DiskMonths THEN m[k] ELSE Missing]
           /\ yearly = [k \in Years |-> IF k \in DiskYears THEN y[k] ELSE Missing]
    /\ outcome = NoRun
    /\ runs = 0
    /\ call = NoCall

NextDisk == Compact

SpecDisk == InitDisk /\ [][NextDisk]_vars

-----------------------------------------------------------------------------
(* Claims about the archive runs *)

\* The Dedup Key as the specification words it: the link when it is present
\* and not empty, else the pair (title, source).
DedupKey(item) ==
    IF item.link # None /\ item.link # ""
    THEN [link |-> item.link]
    ELSE [title |-> item.title, source |-> item.source]

Resolves(item) == parse_published_dt(item).known
ResolvedTs(item) == Timestamp(parse_published_dt(item))

UniqueKeys(items) ==
    \A i, j \in DOMAIN items : DedupKey(items[i]) = DedupKey(items[j]) => i = j

\* The last item of each Dedup Key in a list
LastPerKey(items) ==
    {items[i] : i \in {i \in DOMAIN items :
        \A j \in DOMAIN items : DedupKey(items[j]) = DedupKey(items[i]) => j <= i}}

ArchiveRan == outcome.prog = "archive"
ArchiveStep == runs' = runs + 1

\* C1: an archive run repeated on an unchanged store leaves every monthly and
\* every yearly partition as the run before left it: same items, same order.
C1_Idempotent ==
    [][(runs >= 1 /\ ArchiveStep) => (monthly' = monthly /\ yearly' = yearly)]_vars

\* A second run has ended well over partitions that hold more than the store
\* brought.
C1_Witness ==
    /\ runs >= 2
    /\ ArchiveRan /\ outcome.status = "ok"
    /\ outcome.years # {}
    /\ \E k \in outcome.months :
           /\ Len(monthly[k].items) >= 2
           /\ \E x \in Range(monthly[k].items) : x \notin Range(recent.items)

\* C2: no partition file that a run has written holds two items with the
\* same Dedup Key, whatever the file held before and whatever the store holds.
C2_NoDuplicateKeys ==
    ArchiveRan =>
        /\ \A k \in outcome.months :
               monthly[k].kind = "list" /\ UniqueKeys(monthly[k].items)
        /\ \A y \in outcome.years :
               yearly[y].kind = "list" /\ UniqueKeys(yearly[y].items)

\* A run has written a yearly file that held a key twice before (link "d" is
\* on disk only, and twice), from a store that holds a key of that year twice.
C2_Witness ==
    /\ ArchiveRan
    /\ \E y \in outcome.years :
           /\ \E x \in Range(yearly[y].items) : x.link = "d"
           /\ \E i, j \in DOMAIN recent.items :
                  /\ i < j
                  /\ recent.items[i] # recent.items[j]
                  /\ DedupKey(recent.items[i]) = DedupKey(recent.items[j])
                  /\ Resolves(recent.items[i]) /\ Resolves(recent.items[j])
                  /\ year_key(recent.items[i]) = y /\ year_key(recent.items[j]) = y

InvalidFiles ==
    {k \in MonthKeys : monthly[k].kind = "invalid"}
        \cup {y \in Years : yearly[y].kind = "invalid"}
UnreadableFiles ==
    {k \in MonthKeys : monthly[k].kind = "unreadable"}
        \cup {y \in Years : yearly[y].kind = "unreadable"}

\* C8 (as claimed): when the file of one partition is structurally invalid,
\* the run still merges and saves every other monthly and yearly partition
\* the store has items for.
C8_FailureConfined ==
    (ArchiveRan /\ recent.kind = "store"
        /\ Cardinality(InvalidFiles) = 1 /\ UnreadableFiles = {})
    => /\ \A k \in DOMAIN bucket_items_by_month(recent.items) :
              monthly[k].kind # "invalid"
                  => k \in outcome.months /\ monthly[k].kind = "list"
       /\ \A y \in DOMAIN bucket_items_by_year(recent.items) :
              yearly[y].kind # "invalid"
                  => y \in outcome.years /\ yearly[y].kind = "list"

\* C9 (as claimed): a run that finds the file of a partition missing or
\* unreadable (and no file structurally invalid) takes it as empty and does
\* not fail: afterwards the file holds the last item of each Dedup Key of
\* the partition's new items, and nothing else.
C9_MissingOrUnreadableIsEmpty ==
    [][(ArchiveStep /\ recent.kind = "store" /\ InvalidFiles = {})
       => /\ outcome'.status # "error"
          /\ \A k \in DOMAIN bucket_items_by_month(recent.items) :
                 monthly[k].kind \in {"missing", "unreadable"}
                 => /\ monthly'[k].kind = "list"
                    /\ UniqueKeys(monthly'[k].items)
                    /\ Range(monthly'[k].items)
                           = LastPerKey(bucket_items_by_month(recent.items)[k])
          /\ \A y \in DOMAIN bucket_items_by_year(recent.items) :
                 yearly[y].kind \in {"missing", "unreadable"}
                 => /\ yearly'[y].kind = "list"
                    /\ UniqueKeys(yearly'[y].items)
                    /\ Range(yearly'[y].items)
                           = LastPerKey(bucket_items_by_year(recent.items)[y])
      ]_vars

\* The part of C9 that is about missing files only: no file is unreadable.
C9_MissingIsEmpty ==
    [][(ArchiveStep /\ recent.kind = "store" /\ InvalidFiles = {}
           /\ UnreadableFiles = {})
       => /\ outcome'.status # "error"
          /\ \A k \in DOMAIN bucket_items_by_month(recent.items) :
                 monthly[k].kind = "missing"
                 => /\ monthly'[k].kind = "list"
                    /\ Range(monthly'[k].items)
                           = LastPerKey(bucket_items_by_month(recent.items)[k])
      ]_vars

\* Every item of a partition has a parsed date of the partition's year (and
\* month).
PartitionsMatchDates ==
    /\ \A k \in MonthKeys : \A x \in Range(monthly[k].items) :
           /\ Resolves(x)
           /\ YearOf(parse_published_dt(x)) = k[1]
           /\ MonthOf(parse_published_dt(x)) = k[2]
    /\ \A y \in Years : \A x \in Range(yearly[y].items) :
           Resolves(x) /\ YearOf(parse_published_dt(x)) = y

\* C10: from an empty archive, every item of monthly partition (Y, M)
\* resolves to year Y and month M and every item of yearly partition Y to
\* year Y, so that no item without a resolved date is in a partition; and an
\* archive run leaves the Recency Store as it is.
C10_PartitionsMatchDates ==
    []PartitionsMatchDates /\ [][ArchiveStep => recent' = recent]_vars

\* A run has archived a store that holds an item without date and items of
\* two months.
C10_Witness ==
    /\ ArchiveRan /\ outcome.status = "ok"
    /\ Cardinality(outcome.months) >= 2
    /\ recent.kind = "store"
    /\ \E x \in Range(recent.items) : ~Resolves(x)
    /\ \A k \in outcome.months : monthly[k].items # <<>>

\* The Dedup Keys a file holds
KeysOf(file) == {DedupKey(x) : x \in Range(file.items)}

\* A file that is there stays, and holds every key it held.
Grows(before, after) ==
    /\ KeysOf(before) \subseteq KeysOf(after)
    /\ before.kind # "missing" => after.kind # "missing"

\* C21: archive partitions only grow: no step removes a Dedup Key from a
\* monthly or yearly partition, also when the Recency Store no longer holds
\* the item, and no step deletes a partition file.
C21_PartitionsOnlyGrow ==
    [][(monthly' # monthly \/ yearly' # yearly) =>
          /\ \A k \in MonthKeys : Grows(monthly[k], monthly'[k])
          /\ \A y \in Years : Grows(yearly[y], yearly'[y])]_vars

\* An archive run has written partitions while a monthly and a yearly
\* partition hold a key that the Recency Store has lost since.
C21_Witness ==
    /\ ArchiveRan /\ outcome.status = "ok" /\ outcome.months # {}
    /\ recent.kind = "store"
    /\ \E k \in MonthKeys : \E x \in Range(monthly[k].items) :
           /\ DedupKey(x) \notin KeysOf(recent)
           /\ DedupKey(x) \in KeysOf(yearly[k[1]])

\* The Dedup Keys the monthly partitions of year y hold
MonthlyKeysOf(y) ==
    UNION {KeysOf(monthly[k]) : k \in {k \in MonthKeys : k[1] = y}}

\* C24: from an empty archive, after any archive runs that complete without
\* error, the Dedup Keys of yearly partition Y are those of the monthly
\* partitions of year Y taken together.
C24_YearlyIsUnionOfMonthly ==
    \A y \in Years : KeysOf(yearly[y]) = MonthlyKeysOf(y)

\* After an archive run a yearly partition holds the keys of two monthly
\* partitions of its year, one of them no longer in the Recency Store.
C24_Witness ==
    /\ ArchiveRan /\ outcome.status = "ok"
    /\ recent.kind = "store"
    /\ \E y \in Years :
           /\ Cardinality({k \in MonthKeys :
                              k[1] = y /\ monthly[k].items # <<>>}) >= 2
           /\ Cardinality(KeysOf(yearly[y])) >= 2
           /\ KeysOf(yearly[y]) \ KeysOf(recent) # {}

-----------------------------------------------------------------------------
(* One call of merge_and_dedup *)

InitMerge ==
    /\ recent = Missing
    /\ monthly = NoArchiveMonthly
    /\ yearly = NoArchiveYearly
    /\ outcome = NoRun
    /\ runs = 0
    /\ \E e \in SeqUpTo(MergeItems, MaxLen), n \in SeqUpTo(MergeItems, MaxLen) :
           call = [fn |-> "merge_and_dedup", existing |-> e, new |-> n,
                   done |-> FALSE, result |-> <<>>]

MergeCall ==
    /\ call.fn = "merge_and_dedup"
    /\ ~call.done
    /\ call' = [call EXCEPT !.done = TRUE,
                            !.result = merge_and_dedup(call.existing, call.new)]
    /\ UNCHANGED <<recent, monthly, yearly, outcome, runs>>

NextMerge == MergeCall

SpecMerge == InitMerge /\ [][NextMerge]_vars

-----------------------------------------------------------------------------
(* One ingestion run, with its inputs kept *)

\* What the previous news_recent.json holds for the link the feeds bring.
PreviousItems ==
    { Dated("a", "u", 0 - PastSpan), Dated("a", "u", MaxTs), Undated("a", "u") }

\* What else it may hold: an item without link, and an item under the second
\* link whose published_ts is a number that fromtimestamp rejects.
OddItems ==
    { Item("", "u", "s", <<MaxTs>>, IsoUtc(MaxTs)),
      Item("b", "u", "s", <<0 - TooBig>>, NoPub) }

\* The previous news_recent.json: none, or a file of up to MaxLen items, the
\* same link more than once included.
PreviousStores ==
    {Missing} \cup {Store(s) : s \in SeqUpTo(PreviousItems \cup OddItems, MaxLen) \ {<<>>}}

InitIngest ==
    /\ recent = Missing
    /\ monthly = NoArchiveMonthly
    /\ yearly = NoArchiveYearly
    /\ outcome = NoRun
    /\ runs = 0
    /\ \E previous \in PreviousStores,
          entries \in SeqUpTo(FeedEntries, MaxLen),
          now \in NowVals, days_back \in DaysBackVals :
           call = [fn |-> "ingest", previous |-> previous, entries |-> entries,
                   now |-> now, days_back |-> days_back,
                   done |-> FALSE, result |-> <<>>]

IngestCall ==
    /\ call.fn = "ingest"
    /\ ~call.done
    /\ \E items_list \in {ingest(call.previous, call.entries,
                                  call.now, call.days_back)} :
           /\ call' = [call EXCEPT !.done = TRUE, !.result = items_list]
           /\ recent' = out_data(items_list)
    /\ UNCHANGED <<monthly, yearly, outcome, runs>>

NextIngest == IngestCall

SpecIngest == InitIngest /\ [][NextIngest]_vars

-----------------------------------------------------------------------------
(* Claims about the ingestion run, checked under SpecIngest *)

IngestDone == call.fn = "ingest" /\ call.done
IngestCutoff == call.now - call.days_back

RECURSIVE items_of(_)
items_of(entries) ==
    IF entries = <<>> THEN <<>>
    ELSE <<item_of(Head(entries))>> \o items_of(Tail(entries))

\* The items that reach the store under a link, in the order of arrival: the
\* one pre-loaded from the previous store, then the entries not passed over.
Arrivals(link) ==
    SelectSeq(preload(<<>>, load_json_list(call.previous), IngestCutoff),
              LAMBDA it : it.link = link)
    \o SelectSeq(items_of(SelectSeq(call.entries,
                      LAMBDA e : ~skipped(e, IngestCutoff))),
                 LAMBDA it : it.link = link)

\* x is published strictly later than y, no timestamp being the earliest.
StrictlyLater(x, y) ==
    /\ x.published_ts # NoTs
    /\ (y.published_ts = NoTs \/ x.published_ts[1] > y.published_ts[1])

\* C4 (as claimed): of the items that arrive under one link, the incumbent is
\* kept unless the candidate is published strictly later, an unknown
\* timestamp being the earliest: the store holds, for each link, the first
\* arrival than which none is later.
C4_LatestTimestampWins ==
    IngestDone =>
        \A link \in {"a", "b"} :
            LET arrivals == Arrivals(link)
                held == SelectSeq(call.result, LAMBDA it : it.link = link)
            IN arrivals # <<>> =>
                 /\ Len(held) = 1
                 /\ \E i \in DOMAIN arrivals :
                        /\ held[1] = arrivals[i]
                        /\ \A m \in DOMAIN arrivals :
                               ~StrictlyLater(arrivals[m], arrivals[i])
                        /\ \A m \in DOMAIN arrivals :
                               m < i => StrictlyLater(arrivals[i], arrivals[m])

\* The same, for runs whose arrivals all carry a timestamp after the epoch
\* or none.
C4_AfterEpoch ==
    (IngestDone /\ \A link \in {"a", "b"} : \A i \in DOMAIN Arrivals(link) :
         OrZero(Arrivals(link)[i].published_ts) >= 0
         /\ Arrivals(link)[i].published_ts # <<0>>)
    => C4_LatestTimestampWins

-----------------------------------------------------------------------------
(* Claims about merge_and_dedup, checked under SpecMerge *)

MalformedIdentity(item) ==
    ~Truthy(item.link) /\ ~Truthy(item.title) /\ ~Truthy(item.source)

MergeDone == call.fn = "merge_and_dedup" /\ call.done
MergeInput == call.existing \o call.new

\* Where the item that survives under the key of x was supplied: the last
\* place of that key in existing followed by new.
LastPlace(x) ==
    CHOOSE i \in DOMAIN MergeInput :
        /\ DedupKey(MergeInput[i]) = DedupKey(x)
        /\ \A m \in DOMAIN MergeInput :
               DedupKey(MergeInput[m]) = DedupKey(x) => m <= i

\* Where the key of x was first supplied.
FirstPlace(x) ==
    CHOOSE i \in DOMAIN MergeInput :
        /\ DedupKey(MergeInput[i]) = DedupKey(x)
        /\ \A m \in DOMAIN MergeInput :
               DedupKey(MergeInput[m]) = DedupKey(x) => m >= i

\* C3: merge(existing, incoming) holds, for every Dedup Key supplied, exactly
\* one item, and it is the item supplied last in existing followed by
\* incoming, whatever the timestamps; it holds nothing else.
C3_LastSuppliedWins ==
    MergeDone =>
        /\ \A i \in DOMAIN MergeInput : \E j \in DOMAIN call.result :
               DedupKey(call.result[j]) = DedupKey(MergeInput[i])
        /\ \A j, k \in DOMAIN call.result :
               DedupKey(call.result[j]) = DedupKey(call.result[k]) => j = k
        /\ \A j \in DOMAIN call.result :
               /\ \E i \in DOMAIN MergeInput :
                      DedupKey(MergeInput[i]) = DedupKey(call.result[j])
               /\ call.result[j] = MergeInput[LastPlace(call.result[j])]

\* An incoming item with an earlier date has replaced the existing item of
\* its link, and an incoming item without link the existing one of its title
\* and source.
C3_Witness ==
    /\ MergeDone
    /\ \E e \in Range(call.existing), n \in Range(call.new) :
           /\ Truthy(e.link) /\ e.link = n.link
           /\ Resolves(e) /\ Resolves(n) /\ ResolvedTs(n) < ResolvedTs(e)
           /\ n \in Range(call.result) /\ e \notin Range(call.result)
    /\ \E e \in Range(call.existing), n \in Range(call.new) :
           /\ e.link = "" /\ n.link = None /\ ~MalformedIdentity(n)
           /\ n \in Range(call.result) /\ e \notin Range(call.result)

\* C5 (as claimed): the output of a merge is in descending order of resolved
\* timestamp and every item without a resolved timestamp comes after every
\* item with one, also for timestamps at or before the epoch.
C5_UndatedSinkToEnd ==
    MergeDone =>
        \A j, k \in DOMAIN call.result : j < k =>
            /\ (Resolves(call.result[j]) /\ Resolves(call.result[k]))
                   => ResolvedTs(call.result[j]) >= ResolvedTs(call.result[k])
            /\ Resolves(call.result[k]) => Resolves(call.result[j])

SameResolved(x, y) ==
    \/ Resolves(x) /\ Resolves(y) /\ ResolvedTs(x) = ResolvedTs(y)
    \/ ~Resolves(x) /\ ~Resolves(y)

\* C6 (as claimed): two surviving items with identical resolved timestamps
\* stand in the order in which they were supplied in existing followed by
\* incoming, also when one of them is an incoming item that replaced an
\* existing one.
C6_TiesKeepSupplyOrder ==
    MergeDone =>
        \A j, k \in DOMAIN call.result :
            (j < k /\ SameResolved(call.result[j], call.result[k]))
                => \E i, m \in DOMAIN MergeInput :
                       /\ i < m
                       /\ MergeInput[i] = call.result[j]
                       /\ MergeInput[m] = call.result[k]

\* C6 (amended): two surviving items with identical sort values stand in the
\* order in which their Dedup Keys were first supplied in existing followed
\* by incoming: an incoming item that replaces an existing one takes its place.
C6_TiesKeepFirstKeyOrder ==
    MergeDone =>
        \A j, k \in DOMAIN call.result :
            (j < k /\ sort_key(call.result[j]) = sort_key(call.result[k]))
                => FirstPlace(call.result[j]) < FirstPlace(call.result[k])

\* An incoming item has replaced an existing item that was supplied before
\* another existing item of the same timestamp, and stands before it.
C6_Witness ==
    /\ MergeDone
    /\ Len(call.existing) = 2 /\ Len(call.new) = 1 /\ Len(call.result) = 2
    /\ call.result[1] = call.new[1]
    /\ call.new[1] # call.existing[1]
    /\ DedupKey(call.new[1]) = DedupKey(call.existing[1])
    /\ call.result[2] = call.existing[2]
    /\ Resolves(call.result[1]) /\ Resolves(call.result[2])
    /\ ResolvedTs(call.result[1]) = ResolvedTs(call.result[2])

\* C7 (as claimed): an item with neither link nor title nor source is dropped
\* by the merge and is not in its result.
C7_MalformedDropped ==
    MergeDone => \A j \in DOMAIN call.result : ~MalformedIdentity(call.result[j])

-----------------------------------------------------------------------------
(* Calls of parse_published_dt on one item, and the item's monthly bucket *)

\* published_ts: none, in range, and numbers fromtimestamp rejects.
ResolveTs ==
    {NoTs, <<0>>, <<MaxTs>>, <<0 - PastSpan>>, <<TooBig>>, <<0 - TooBig>>}

\* published: none, text no parser reads, and text of each format, with and
\* without an offset from UTC.
ResolvePub ==
    {NoPub, [kind |-> "other", local |-> 0, off |-> 0]}
    \cup [kind : {"iso_aware", "fmt_z"}, local : (0 - PastSpan)..MaxTs,
          off : {0 - 1, 0, 1}]
    \cup [kind : {"iso_naive", "fmt_naive"}, local : (0 - PastSpan)..MaxTs,
          off : {0}]

ResolveItems == {Item("a", "t", "s", ts, pub) : ts \in ResolveTs, pub \in ResolvePub}

InitResolve ==
    /\ recent = Missing
    /\ monthly = NoArchiveMonthly
    /\ yearly = NoArchiveYearly
    /\ outcome = NoRun
    /\ runs = 0
    /\ \E item \in ResolveItems :
           call = [fn |-> "parse_published_dt", item |-> item, calls |-> 0,
                   result |-> NoDt, months |-> {}]

ResolveCall ==
    /\ call.fn = "parse_published_dt"
    /\ call.calls < MaxCalls
    /\ call' = [call EXCEPT
                   !.calls = call.calls + 1,
                   !.result = parse_published_dt(call.item),
                   !.months = DOMAIN bucket_items_by_month(<<call.item>>)]
    /\ UNCHANGED <<recent, monthly, yearly, outcome, runs>>

NextResolve == ResolveCall

SpecResolve == InitResolve /\ [][NextResolve]_vars

-----------------------------------------------------------------------------
(* Claims about the date parser, checked under SpecResolve *)

ResolveDone == call.fn = "parse_published_dt" /\ call.calls >= 1

\* The numeric field is a number that is a representable instant.
TsConverts(item) ==
    /\ item.published_ts # NoTs
    /\ item.published_ts[1] >= 0 - DtSpan
    /\ item.published_ts[1] <= DtSpan

\* The textual field is text of a format the parser reads.
TextReads(item) ==
    item.published.kind \in {"iso_aware", "iso_naive", "fmt_z", "fmt_naive"}

ResolvesAsStated ==
    ResolveDone =>
        /\ ~IsRaise(call.result)
        /\ TsConverts(call.item)
               => call.result = Dt(call.item.published_ts[1], 0)
        /\ (~TsConverts(call.item) /\ TextReads(call.item))
               => /\ call.result.known
                  /\ call.result.local = call.item.published.local
        /\ (~TsConverts(call.item) /\ ~TextReads(call.item))
               => call.result = NoDt

\* C13: the date parser never raises to its caller: it returns the instant of
\* the numeric field when that converts, falls through to the textual field
\* when the conversion raises (or there is no number), and returns unknown
\* when both fail; a second call on the same item returns what the first did.
C13_NeverRaises ==
    /\ []ResolvesAsStated
    /\ [][ResolveDone => call'.result = call.result]_vars

\* The parser was called twice on an item whose number fromtimestamp rejects
\* and whose text it reads.
C13_Witness ==
    /\ call.fn = "parse_published_dt" /\ call.calls >= 2
    /\ call.item.published_ts # NoTs /\ ~TsConverts(call.item)
    /\ TextReads(call.item)
    /\ call.result.known

\* The (year, month) of the UTC instant of a datetime.
UtcMonthKey(dt) ==
    <<Timestamp(dt) \div YearLen, ((Timestamp(dt) % YearLen) \div MonthLen) + 1>>

\* C14 (as claimed): an item dated by its textual field is in the monthly
\* bucket of its UTC instant: text without an offset is taken as UTC, text
\* with an offset is converted to the same instant in UTC.
C14_PartitionKeyIsUtc ==
    (ResolveDone /\ ~TsConverts(call.item) /\ call.result.known) =>
        /\ Timestamp(call.result)
               = call.item.published.local - call.item.published.off
        /\ call.months = {UtcMonthKey(call.result)}

\* The part of C14 that is about text without an offset, or with offset 0.
C14_NoOffsetIsUtc ==
    (ResolveDone /\ ~TsConverts(call.item) /\ call.result.known
                 /\ call.item.published.off = 0) =>
        /\ Timestamp(call.result) = call.item.published.local
        /\ call.months = {UtcMonthKey(call.result)}

-----------------------------------------------------------------------------
(* build_trends_json.py: the tables of words, and the text of an entry *)

\* A text is held as the sequence of its words.  The words of the model:
\* names of threat actors in several cases, one of them written with the
\* dotless i (U+0131, whose upper case is I), a name only the generic
\* patterns match, CVE identifiers in both cases, vendors, attack terms, a
\* stopword, a number, and plain words.
DotlessAkira == "ak<U+0131>ra"

\* the day of the run: datetime.now(timezone.utc)
TrendNow == 0

TopActors == 5

WINDOWS == << <<"24h", 1>>, <<"7d", 7>>, <<"30d", 30>>, <<"90d", 90>> >>
WindowNames == {WINDOWS[i][1] : i \in DOMAIN WINDOWS}
WindowDays(win) == WINDOWS[CHOOSE i \in DOMAIN WINDOWS : WINDOWS[i][1] = win][2]

STOPWORDS == {"the", "security", "http", "https", "www", "com"}
KEYWORD_VENDOR_STOPWORDS == {"upguard"}
VENDOR_KEYWORDS == << <<"Microsoft", <<"microsoft", "windows">>>>,
                      <<"Cisco", <<"cisco">>>> >>
Vendors == {VENDOR_KEYWORDS[i][1] : i \in DOMAIN VENDOR_KEYWORDS}
TRENDING_TERMS == <<"ransomware", "phishing">>
THREAT_ACTOR_NAMES == <<"Akira", "Play">>

\* str.lower(): the dotless i is a lower-case letter already
lower(w) ==
    CASE w \in {"Akira", "AKIRA"}  -> "akira"
      [] w = "Play"                -> "play"
      [] w = "APT99"               -> "apt99"
      [] w = "CVE-2024-1234"       -> "cve-2024-1234"
      [] w = "CVE-2024-5678"       -> "cve-2024-5678"
      [] w = "Ransomware"          -> "ransomware"
      [] w = "Microsoft"           -> "microsoft"
      [] w = "Windows"             -> "windows"
      [] w = "Cisco"               -> "cisco"
      [] w = "Security"            -> "security"
      [] w = "Zero"                -> "zero"
      [] OTHER                     -> w

\* str.upper(), of the text a CVE match is
upper(w) ==
    CASE w = "cve-2024-1234" -> "CVE-2024-1234"
      [] w = "cve-2024-5678" -> "CVE-2024-5678"
      [] OTHER               -> w

\* What re.IGNORECASE compares: the case folding of a word.  The dotless i
\* folds to i.
casefold(w) == IF w = DotlessAkira THEN "akira" ELSE lower(w)

RECURSIVE lower_all(_)
lower_all(words) ==
    IF words = <<>> THEN <<>> ELSE <<lower(Head(words))>> \o lower_all(Tail(words))

normalize_text(entry) == lower_all(entry.title \o entry.summary \o entry.source)

\* pat in text, for a pattern of one word: the pattern is part of a word
InWord(pat, w) == pat = w \/ <<pat, w>> \in {<<"phishing", "spearphishing">>}
InText(pat, text) == \E i \in DOMAIN text : InWord(pat, text[i])

\* re.findall(r"[a-zA-Z0-9\-]+", word): the dotless i is no part of a token
findall_tokens(w) == IF w = DotlessAkira THEN <<"ak", "ra">> ELSE <<w>>

isdigit(token) == token \in {"2024"}

RECURSIVE tokenize(_)
tokenize(text) ==
    IF text = <<>> THEN <<>>
    ELSE SelectSeq(findall_tokens(lower(Head(text))),
                   LAMBDA token : /\ Len(token) >= 4
                                  /\ token \notin STOPWORDS
                                  /\ ~isdigit(token)
                                  /\ token \notin KEYWORD_VENDOR_STOPWORDS)
         \o tokenize(Tail(text))

\* THREAT_ACTOR_PATTERNS: the generic patterns, and the pattern of the names
GenericActorMatch(w) == casefold(w) \in {"apt99"}
NameMatch(w) ==
    \E i \in DOMAIN THREAT_ACTOR_NAMES : casefold(w) = casefold(THREAT_ACTOR_NAMES[i])

has_actor(text) ==
    \E i \in DOMAIN text : GenericActorMatch(text[i]) \/ NameMatch(text[i])

\* set(m.group(0) for m in THREAT_ACTOR_NAME_REGEX.finditer(text))
name_matches(text) == {text[i] : i \in {j \in DOMAIN text : NameMatch(text[j])}}

\* CANONICAL_TA_MAP.get(raw_name.lower(), raw_name)
canonical(raw_name) ==
    IF \E i \in DOMAIN THREAT_ACTOR_NAMES :
           lower(THREAT_ACTOR_NAMES[i]) = lower(raw_name)
    THEN THREAT_ACTOR_NAMES[CHOOSE i \in DOMAIN THREAT_ACTOR_NAMES :
             /\ lower(THREAT_ACTOR_NAMES[i]) = lower(raw_name)
             /\ \A m \in DOMAIN THREAT_ACTOR_NAMES :
                    lower(THREAT_ACTOR_NAMES[m]) = lower(raw_name) => m <= i]
    ELSE raw_name

\* CVE_REGEX, with re.IGNORECASE
CveMatch(w) == casefold(w) \in {"cve-2024-1234", "cve-2024-5678"}

\* Mutant: the matches are not put in upper case.
cve_hits_as_matched(text) == {text[i] : i \in {j \in DOMAIN text : CveMatch(text[j])}}

\* set(m.upper() for m in CVE_REGEX.findall(text))
cve_hits(text) == {upper(text[i]) : i \in {j \in DOMAIN text : CveMatch(text[j])}}

vendor_hits(text) ==
    {VENDOR_KEYWORDS[i][1] : i \in {j \in DOMAIN VENDOR_KEYWORDS :
        \E k \in DOMAIN VENDOR_KEYWORDS[j][2] :
            InText(lower(VENDOR_KEYWORDS[j][2][k]), text)}}

trend_hits(text) ==
    {TRENDING_TERMS[i] : i \in {j \in DOMAIN TRENDING_TERMS :
        InText(lower(TRENDING_TERMS[j]), text)}}

\* c.strip()
strip(c) ==
    CASE c = " malware " -> "malware"
      [] c = " "         -> ""
      [] OTHER           -> c

RECURSIVE strip_all(_)
strip_all(cats) ==
    IF cats = <<>> THEN <<>> ELSE <<strip(Head(cats))>> \o strip_all(Tail(cats))

\* smart_groups is a list of str (an empty one counts as none); category is
\* a str or None.
get_categories(entry) ==
    SelectSeq(strip_all(entry.smart_groups
                        \o (IF entry.category = None THEN <<>>
                            ELSE <<entry.category>>)),
              LAMBDA c : c # "")

-----------------------------------------------------------------------------
(* build_trends_json.py: the counters and main *)

\* A Counter is held as the sequence of its <<key, count>> pairs in the
\* order in which the keys were inserted.
CountOf(cnt, k) ==
    IF \E i \in DOMAIN cnt : cnt[i][1] = k
    THEN cnt[CHOOSE i \in DOMAIN cnt : cnt[i][1] = k][2]
    ELSE 0

\* Mutant: the key is set to 1 (cnt[k] = 1).
CounterAdd_SetToOne(cnt, k) ==
    IF \E i \in DOMAIN cnt : cnt[i][1] = k
    THEN cnt
    ELSE Append(cnt, <<k, 1>>)

\* Mutant: a key that is counted again moves to the end.
CounterAdd_MoveToEnd(cnt, k) ==
    Append(SelectSeq(cnt, LAMBDA kv : kv[1] # k), <<k, CountOf(cnt, k) + 1>>)

\* cnt[k] += 1
CounterAdd(cnt, k) ==
    IF \E i \in DOMAIN cnt : cnt[i][1] = k
    THEN LET i == CHOOSE i \in DOMAIN cnt : cnt[i][1] = k
         IN [cnt EXCEPT ![i] = <<k, cnt[i][2] + 1>>]
    ELSE Append(cnt, <<k, 1>>)

\* for k in keys: cnt[k] += 1
RECURSIVE CounterAddAll(_, _)
CounterAddAll(cnt, keys) ==
    IF keys = <<>> THEN cnt
    ELSE CounterAddAll(CounterAdd(cnt, Head(keys)), Tail(keys))

RECURSIVE with_count(_)
with_count(cnt) ==
    IF cnt = <<>> THEN <<>>
    ELSE <<<<Head(cnt)[2], Head(cnt)>>>> \o with_count(Tail(cnt))

\* Counter.most_common(): sorted(items, key=count, reverse=True), stable
most_common(cnt) == values(sort_desc(with_count(cnt)))

\* Counter.most_common(n): the first n of them
most_common_n(cnt, n) ==
    LET all == most_common(cnt)
    IN SubSeq(all, 1, IF Len(all) < n THEN Len(all) ELSE n)

\* for x in a_set: the elements in the order the set yields them, which is
\* the order of their hashes: `order` lists all strings in that order.
Iterate(S, order) == SelectSeq(order, LAMBDA x : x \in S)

RECURSIVE canonical_all(_)
canonical_all(raw_names) ==
    IF raw_names = <<>> THEN <<>>
    ELSE <<canonical(Head(raw_names))>> \o canonical_all(Tail(raw_names))

RECURSIVE with_day(_, _)
with_day(day, names) ==
    IF names = <<>> THEN <<>>
    ELSE <<<<day, Head(names)>>>> \o with_day(day, Tail(names))

\* parse_iso(date_str): the datetime in UTC, or an exception
parse_iso(p) ==
    IF p.kind = "none" THEN Raise("ValueError")
    ELSE LET dt == fromisoformat(p)
         IN IF IsRaise(dt) THEN dt ELSE Dt(dt.local - dt.off, 0)

\* entry.get("published") or entry.get("date")
date_str(entry) ==
    IF entry.published.kind # "none" THEN entry.published ELSE entry.date

\* Mutant: the window is open at its start.
within_window_open(entry_dt, now, days) == Timestamp(entry_dt) > now - days

within_window(entry_dt, now, days) == Timestamp(entry_dt) >= now - days

\* for win, days in WINDOWS.items(): if within_window: for k in keys:
\* table[win][k] += 1
RECURSIVE per_window(_, _, _, _, _)
per_window(table, wins, keys, dt, now) ==
    IF wins = <<>> THEN table
    ELSE per_window(
             IF within_window(dt, now, Head(wins)[2])
             THEN [table EXCEPT ![Head(wins)[1]] =
                       CounterAddAll(table[Head(wins)[1]], keys)]
             ELSE table,
             Tail(wins), keys, dt, now)

NoTables == [w \in WindowNames |-> <<>>]

NoCounts ==
    [daily_counter |-> <<>>,
     categories |-> NoTables, keywords |-> NoTables, vendors |-> NoTables,
     trends |-> NoTables, cves |-> NoTables,
     threat_actor_daily_counter |-> <<>>,
     threat_actor_daily_names |-> <<>>,   \* keyed by <<date, name>>
     processed |-> 0, skipped_no_date |-> 0]

\* The body of main's loop for one entry.
count_entry(acc, entry, now, order) ==
    LET dt == parse_iso(date_str(entry)) IN
    IF date_str(entry).kind = "none" \/ IsRaise(dt)
    THEN [acc EXCEPT !.skipped_no_date = acc.skipped_no_date + 1]
    ELSE LET date_only == Timestamp(dt)
             text == normalize_text(entry)
         IN [acc EXCEPT
                !.daily_counter = CounterAdd(acc.daily_counter, date_only),
                !.threat_actor_daily_counter =
                    IF has_actor(text)
                    THEN CounterAdd(acc.threat_actor_daily_counter, date_only)
                    ELSE acc.threat_actor_daily_counter,
                !.threat_actor_daily_names =
                    CounterAddAll(acc.threat_actor_daily_names,
                        with_day(date_only,
                            canonical_all(Iterate(name_matches(text), order.names)))),
                !.categories = per_window(acc.categories, WINDOWS,
                                          get_categories(entry), dt, now),
                !.keywords = per_window(acc.keywords, WINDOWS,
                                        tokenize(text), dt, now),
                !.vendors = per_window(acc.vendors, WINDOWS,
                                Iterate(vendor_hits(text), order.vendors), dt, now),
                \* the order of trend_hits shows in no output
                !.trends = per_window(acc.trends, WINDOWS,
                                Iterate(trend_hits(text), TRENDING_TERMS), dt, now),
                !.cves = per_window(acc.cves, WINDOWS,
                                Iterate(cve_hits(text), order.cves), dt, now),
                !.processed = acc.processed + 1]

\* main's loop over news
RECURSIVE count_entries(_, _, _, _)
count_entries(acc, news, now, order) ==
    IF news = <<>> THEN acc
    ELSE count_entries(count_entry(acc, Head(news), now, order),
                       Tail(news), now, order)

\* sorted(counter.keys()), the keys being days
RECURSIVE sorted_days(_)
sorted_days(S) ==
    IF S = {} THEN <<>>
    ELSE LET d == CHOOSE d \in S : \A o \in S : d <= o
         IN <<d>> \o sorted_days(S \ {d})

CounterKeys(cnt) == {cnt[i][1] : i \in DOMAIN cnt}

\* threat_actor_daily_names.get(d, Counter())
names_counter(daily_names, d) ==
    LET of_day == SelectSeq(daily_names, LAMBDA kv : kv[1][1] = d)
    IN [i \in DOMAIN of_day |-> <<of_day[i][1][2], of_day[i][2]>>]

RECURSIVE daily_volume(_, _)
daily_volume(cnt, days) ==
    IF days = <<>> THEN <<>>
    ELSE <<[date |-> Head(days), count |-> CountOf(cnt, Head(days))]>>
         \o daily_volume(cnt, Tail(days))

RECURSIVE threat_actor_daily(_, _)
threat_actor_daily(acc, days) ==
    IF days = <<>> THEN <<>>
    ELSE <<[date |-> Head(days),
            count |-> CountOf(acc.threat_actor_daily_counter, Head(days)),
            top_actors |-> most_common_n(
                names_counter(acc.threat_actor_daily_names, Head(days)),
                TopActors)]>>
         \o threat_actor_daily(acc, Tail(days))

\* What main writes to trends.json.
trends_output(acc) ==
    [daily_volume |->
         daily_volume(acc.daily_counter, sorted_days(CounterKeys(acc.daily_counter))),
     categories |-> [w \in WindowNames |-> most_common(acc.categories[w])],
     top_keywords |-> [w \in WindowNames |-> most_common(acc.keywords[w])],
     vendors |-> [w \in WindowNames |-> most_common(acc.vendors[w])],
     trending_terms |->
         [i \in DOMAIN TRENDING_TERMS |->
             [key |-> TRENDING_TERMS[i],
              counts |-> [w \in WindowNames |->
                             CountOf(acc.trends[w], TRENDING_TERMS[i])]]],
     top_cves |-> [w \in WindowNames |-> most_common(acc.cves[w])],
     threat_actor_daily |->
         threat_actor_daily(acc,
             sorted_days(CounterKeys(acc.threat_actor_daily_counter)))]

-----------------------------------------------------------------------------
(* One run of build_trends_json.py *)

\* An entry of news_recent.json, as the trends script reads it.  Here a tick
\* is a day, and no date is near the ends of datetime's range.
NewsEntry(published, date, ts, title, summary, source, smart_groups, category) ==
    [published |-> published, date |-> date, published_ts |-> ts,
     title |-> title, summary |-> summary, source |-> source,
     smart_groups |-> smart_groups, category |-> category]

\* An entry published `age` days before the run.
Aged(age, title, smart_groups) ==
    NewsEntry(IsoUtc(TrendNow - age), NoPub, NoTs, title, <<>>, <<"the">>,
              smart_groups, None)

\* Two entries of the day of the run that share an actor, a CVE and words in
\* different cases; entries at the start of a window, a day before a window
\* and between two windows, one of them dated with an offset from UTC; an entry
\* dated after the run; an entry written with the dotless i; and entries
\* with a number for a date only and with "date" only.
TrendEntries ==
    { NewsEntry(IsoUtc(TrendNow), NoPub, <<TrendNow>>,
                <<"Akira", "exploit", "AKIRA">>,
                <<"CVE-2024-1234", "cve-2024-1234">>,
                <<"Microsoft", "Security">>, <<"malware">>, None),
      NewsEntry(IsoUtc(TrendNow), NoPub, <<TrendNow>>,
                <<"Play", "Zero", "exploit">>, <<"cve-2024-1234", "akira">>,
                <<"Cisco", "Windows">>, <<" malware ", "apt">>, "apt"),
      Aged(1, <<"Ransomware", "exploit", "APT99", "spearphishing">>, <<"malware">>),
      Aged(30, <<"exploit", "CVE-2024-5678">>, <<"malware">>),
      Aged(40, <<"Zero", "CVE-2024-1234">>, <<"malware">>),
      NewsEntry([kind |-> "iso_aware", local |-> TrendNow - 89, off |-> 1],
                NoPub, NoTs, <<"exploit", "Play">>, <<>>, <<"the">>,
                <<"apt">>, None),
      Aged(91, <<"exploit", "2024">>, <<"malware">>),
      Aged(0 - 1, <<"Zero", "Akira">>, <<"apt">>),
      Aged(0, <<DotlessAkira, "akira", "Play">>, <<"apt">>),
      NewsEntry(NoPub, NoPub, <<TrendNow>>, <<"exploit">>, <<>>, <<"the">>,
                <<"malware">>, None),
      NewsEntry(NoPub, IsoUtc(TrendNow), NoTs, <<"Zero">>, <<>>, <<"the">>,
                <<" ">>, None) }

\* The strings that come to stand in a set, and the orders a set may yield
\* them in.
RawNames == {"akira", DotlessAkira, "play"}
CveIds == {"CVE-2024-1234", "CVE-2024-5678"}

Perms(S) ==
    {p \in [1..Cardinality(S) -> S] :
        \A i, j \in 1..Cardinality(S) : p[i] = p[j] => i = j}

HashOrders == [names : Perms(RawNames), vendors : Perms(Vendors), cves : Perms(CveIds)]

InitTrends ==
    /\ recent = Missing
    /\ monthly = NoArchiveMonthly
    /\ yearly = NoArchiveYearly
    /\ outcome = NoRun
    /\ runs = 0
    /\ \E news \in SeqUpTo(TrendEntries, MaxNews) :
           call = [fn |-> "build_trends", news |-> news, now |-> TrendNow,
                   done |-> FALSE, counts |-> NoCounts,
                   result |-> trends_output(NoCounts)]

\* main of build_trends_json.py
TrendsCall ==
    /\ call.fn = "build_trends"
    /\ ~call.done
    /\ \E order \in HashOrders :
         \E acc \in {count_entries(NoCounts, call.news, call.now, order)} :
           call' = [call EXCEPT !.done = TRUE,
                                !.counts = acc,
                                !.result = trends_output(acc)]
    /\ UNCHANGED <<recent, monthly, yearly, outcome, runs>>

NextTrends == TrendsCall

SpecTrends == InitTrends /\ [][NextTrends]_vars

-----------------------------------------------------------------------------
(* Claims about the trends, checked under SpecTrends *)

TrendsDone == call.fn = "build_trends" /\ call.done

\* The entry has a date the trends script reads, and the instant of it.
Analysed(e) == date_str(e).kind # "none" /\ ~IsRaise(parse_iso(date_str(e)))
Instant(e) == Timestamp(parse_iso(date_str(e)))

\* The words of an entry as they are written.
Written(e) == e.title \o e.summary \o e.source

Occurrences(seq, k) == Cardinality({i \in DOMAIN seq : seq[i] = k})

WindowTables == {"categories", "keywords", "vendors", "cves"}

AnyOrder == CHOOSE o \in HashOrders : TRUE

\* The keys one entry brings to a table of a window it is counted in, one
\* for each time it adds 1.
KeyList(e, table) ==
    CASE table = "categories" -> get_categories(e)
      [] table = "keywords"   -> tokenize(normalize_text(e))
      [] table = "vendors"    -> Iterate(vendor_hits(normalize_text(e)), AnyOrder.vendors)
      [] table = "cves"       -> Iterate(cve_hits(normalize_text(e)), AnyOrder.cves)

\* The keys brought to a table by the entries dated from lo up to hi.
RECURSIVE KeysBetween(_, _, _, _)
KeysBetween(news, table, lo, hi) ==
    IF news = <<>> THEN <<>>
    ELSE (IF /\ Analysed(Head(news))
             /\ Instant(Head(news)) >= lo
             /\ Instant(Head(news)) <= hi
          THEN KeyList(Head(news), table) ELSE <<>>)
         \o KeysBetween(Tail(news), table, lo, hi)

\* Every table of every window counts the contributions of exactly the
\* entries dated from the start of the window up to the run.
CountsClosedInterval ==
    \A w \in WindowNames : \A table \in WindowTables :
        LET keys == KeysBetween(call.news, table,
                                call.now - WindowDays(w), call.now)
        IN Range(call.counts[table][w])
               = {<<k, Occurrences(keys, k)>> : k \in Range(keys)}

NoneAfterRun ==
    \A i \in DOMAIN call.news :
        Analysed(call.news[i]) => Instant(call.news[i]) <= call.now

\* C11: for each window by itself, an entry dated exactly at the start of
\* the window is counted in the window's tables and an entry dated before it
\* is not, whatever other windows the entry is counted in (entries dated
\* after the run set aside).
C11_WindowStartIncluded ==
    (TrendsDone /\ NoneAfterRun) => CountsClosedInterval

\* An entry dated exactly 30 days before the run is counted in the 30-day and
\* the 90-day table and not in the 7-day one; an entry dated 40 days before is
\* counted in the 90-day table and not in the 30-day one.
C11_Witness ==
    /\ TrendsDone /\ NoneAfterRun /\ Len(call.news) = 2
    /\ Instant(call.news[1]) = call.now - WindowDays("30d")
    /\ Instant(call.news[2]) = call.now - 40
    /\ CountOf(call.counts.keywords["30d"], "exploit") = 1
    /\ CountOf(call.counts.keywords["7d"], "exploit") = 0
    /\ CountOf(call.counts.keywords["90d"], "zero") = 1
    /\ CountOf(call.counts.keywords["30d"], "zero") = 0

\* C12 (as claimed): an entry is counted in a window's tables if and only if
\* its date lies in [now - window, now]; an entry dated after the run is
\* counted in no window.
C12_ClosedInterval == TrendsDone => CountsClosedInterval

\* C15 (as claimed): the trends script passes over exactly the entries the
\* date parser of the archive (number first, then text) finds no date for:
\* every entry that parser dates is counted in the daily volume of its day.
C15_SkipsExactlyUndated ==
    TrendsDone =>
        /\ call.counts.processed
               = Cardinality({i \in DOMAIN call.news :
                                 parse_published_dt(call.news[i]).known})
        /\ \A i \in DOMAIN call.news :
               LET dt == parse_published_dt(call.news[i]) IN
               dt.known =>
                   CountOf(call.counts.daily_counter, Timestamp(dt))
                       = Cardinality({m \in DOMAIN call.news :
                             /\ parse_published_dt(call.news[m]).known
                             /\ Timestamp(parse_published_dt(call.news[m]))
                                    = Timestamp(dt)})

\* The same, for entries that carry their date as ISO text under "published".
C15_IsoPublished ==
    (TrendsDone /\ \A i \in DOMAIN call.news :
                      \/ call.news[i].published.kind \in {"iso_aware", "iso_naive"}
                      \/ /\ call.news[i].published.kind = "none"
                         /\ call.news[i].date.kind = "none"
                         /\ call.news[i].published_ts = NoTs)
    => C15_SkipsExactlyUndated

CanonicalNames == {THREAT_ACTOR_NAMES[i] : i \in DOMAIN THREAT_ACTOR_NAMES}

\* The entry mentions the actor: a word of it, as written, is the name in
\* some case.
Mentions(e, name) ==
    \E i \in DOMAIN Written(e) : casefold(Written(e)[i]) = casefold(name)

\* C16 (as claimed): every match is counted under the canonical name of its
\* actor, and for each day the count of a canonical name is the number of
\* entries of that day that mention the actor, in whatever cases and however
\* often.
C16_OnePerItemCanonical ==
    TrendsDone =>
        /\ \A i \in DOMAIN call.counts.threat_actor_daily_names :
               call.counts.threat_actor_daily_names[i][1][2] \in CanonicalNames
        /\ \A d \in CounterKeys(call.counts.daily_counter) :
               \A name \in CanonicalNames :
                   CountOf(call.counts.threat_actor_daily_names, <<d, name>>)
                       = Cardinality({i \in DOMAIN call.news :
                             /\ Analysed(call.news[i])
                             /\ Instant(call.news[i]) = d
                             /\ Mentions(call.news[i], name)})

\* The same, for entries in which no name is written with the dotless i.
C16_WithoutDotless ==
    (TrendsDone /\ \A i \in DOMAIN call.news :
                      DotlessAkira \notin Range(Written(call.news[i])))
    => C16_OnePerItemCanonical

\* The entry mentions the CVE identifier in some case.
MentionsCve(e, id) ==
    \E i \in DOMAIN Written(e) : casefold(Written(e)[i]) = casefold(id)

\* C17: CVE identifiers are counted under their upper-case form, one per
\* entry that mentions the identifier in whatever case and however often:
\* in each window the count of an identifier is the number of the window's
\* entries that mention it.
C17_CveUpperOnePerItem ==
    TrendsDone =>
        \A w \in WindowNames :
            /\ CounterKeys(call.counts.cves[w]) \subseteq CveIds
            /\ \A id \in CveIds :
                   CountOf(call.counts.cves[w], id)
                       = Cardinality({i \in DOMAIN call.news :
                             /\ Analysed(call.news[i])
                             /\ within_window(parse_iso(date_str(call.news[i])),
                                              call.now, WindowDays(w))
                             /\ MentionsCve(call.news[i], id)})

\* Of two entries of the day, one writes CVE-2024-1234 in upper and in lower
\* case and the other in lower case only: the 24-hour table counts 2 under
\* the upper-case key, and holds no other key.
C17_Witness ==
    /\ TrendsDone /\ Len(call.news) = 2
    /\ Occurrences(lower_all(Written(call.news[1])), "cve-2024-1234") = 2
    /\ "CVE-2024-1234" \in Range(Written(call.news[1]))
    /\ "cve-2024-1234" \in Range(Written(call.news[2]))
    /\ "CVE-2024-1234" \notin Range(Written(call.news[2]))
    /\ call.result.top_cves["24h"] = << <<"CVE-2024-1234", 2>> >>

\* The natural order of the names that come to be counted.
NameOrder == <<"Akira", "Play", DotlessAkira>>
NameBefore(a, b) ==
    \E i, j \in DOMAIN NameOrder : i < j /\ NameOrder[i] = a /\ NameOrder[j] = b

\* C18 (as claimed): the top_actors of a day are the (at most 5) names with
\* the highest counts of the day in descending order of count, names with
\* equal counts in the natural order of the names, whatever the order in
\* which the entries were processed.
C18_TopActorsByCountThenName ==
    TrendsDone =>
        \A r \in DOMAIN call.result.threat_actor_daily :
            LET row == call.result.threat_actor_daily[r]
                top == row.top_actors
                counted == {kv \in Range(call.counts.threat_actor_daily_names) :
                               kv[1][1] = row.date}
            IN /\ Len(top) = (IF Cardinality(counted) < TopActors
                              THEN Cardinality(counted) ELSE TopActors)
               /\ \A j \in DOMAIN top :
                      CountOf(call.counts.threat_actor_daily_names,
                              <<row.date, top[j][1]>>) = top[j][2]
               /\ \A j, k \in DOMAIN top : j < k =>
                      \/ top[j][2] > top[k][2]
                      \/ top[j][2] = top[k][2] /\ NameBefore(top[j][1], top[k][1])

\* The entry is counted in the window.
Counted(e, w) ==
    Analysed(e) /\ within_window(parse_iso(date_str(e)), call.now, WindowDays(w))

\* For each entry counted in the window, the keys it brings to the table.
RECURSIVE KeysMet(_, _, _)
KeysMet(news, table, w) ==
    IF news = <<>> THEN <<>>
    ELSE (IF Counted(Head(news), w) THEN <<KeyList(Head(news), table)>> ELSE <<>>)
         \o KeysMet(Tail(news), table, w)

FirstPos(seq, k) ==
    CHOOSE i \in DOMAIN seq : seq[i] = k /\ \A m \in DOMAIN seq : seq[m] = k => m >= i

\* The first of the lists that holds k.
FirstList(met, k) ==
    CHOOSE i \in DOMAIN met :
        /\ k \in Range(met[i])
        /\ \A m \in DOMAIN met : k \in Range(met[m]) => m >= i

\* Key a is met before key b while the table is built: by an earlier entry,
\* or earlier in the list of the same entry (the keys that one entry holds in
\* a set are met in the order the set yields them).
MetBefore(met, table, a, b) ==
    \/ FirstList(met, a) < FirstList(met, b)
    \/ /\ FirstList(met, a) = FirstList(met, b)
       /\ \/ table \in {"vendors", "cves"}
          \/ FirstPos(met[FirstList(met, a)], a) < FirstPos(met[FirstList(met, a)], b)

Reported(table, w) ==
    CASE table = "categories" -> call.result.categories[w]
      [] table = "keywords"   -> call.result.top_keywords[w]
      [] table = "vendors"    -> call.result.vendors[w]
      [] table = "cves"       -> call.result.top_cves[w]

\* C19: every reported table lists the keys counted, with their counts, in
\* non-increasing order of count, and keys with equal counts in the order in
\* which they were first met while the entries were counted.
C19_MostFrequentFirstStable ==
    TrendsDone =>
        \A w \in WindowNames : \A table \in WindowTables :
            LET out == Reported(table, w)
                met == KeysMet(call.news, table, w)
            IN /\ Range(out) = Range(call.counts[table][w])
               /\ Len(out) = Len(call.counts[table][w])
               /\ \A j, k \in DOMAIN out : j < k =>
                      \/ out[j][2] > out[k][2]
                      \/ /\ out[j][2] = out[k][2]
                         /\ MetBefore(met, table, out[j][1], out[k][1])

\* Two categories are counted twice each; the one met first was counted
\* last, and stands first.
C19_Witness ==
    /\ TrendsDone /\ Len(call.news) = 2
    /\ get_categories(call.news[1]) = <<"malware", "apt", "apt">>
    /\ get_categories(call.news[2]) = <<"malware">>
    /\ call.result.categories["24h"] = << <<"malware", 2>>, <<"apt", 2>> >>

Arrange(news, p) == [i \in DOMAIN p |-> news[p[i]]]

\* The entries at the places in G, in their order.
Group(news, G) == Arrange(news, SelectSeq([i \in DOMAIN news |-> i], LAMBDA i : i \in G))

RECURSIVE TablesOf(_, _)
TablesOf(table, wins) ==
    IF wins = <<>> THEN <<>>
    ELSE <<table[Head(wins)[1]]>> \o TablesOf(table, Tail(wins))

CountersOf(counts) ==
    <<counts.daily_counter, counts.threat_actor_daily_counter,
      counts.threat_actor_daily_names>>
    \o TablesOf(counts.categories, WINDOWS) \o TablesOf(counts.keywords, WINDOWS)
    \o TablesOf(counts.vendors, WINDOWS) \o TablesOf(counts.trends, WINDOWS)
    \o TablesOf(counts.cves, WINDOWS)

SameCounts(a, b) ==
    /\ a.processed = b.processed /\ a.skipped_no_date = b.skipped_no_date
    /\ LET ca == CountersOf(a)
           cb == CountersOf(b)
       IN \A i \in DOMAIN ca : Range(ca[i]) = Range(cb[i])

\* Counter addition
CounterSum(x, y) ==
    {<<k, CountOf(x, k) + CountOf(y, k)>> : k \in CounterKeys(x) \cup CounterKeys(y)}

SumsTo(a, b, c) ==
    /\ a.processed + b.processed = c.processed
    /\ a.skipped_no_date + b.skipped_no_date = c.skipped_no_date
    /\ LET ca == CountersOf(a)
           cb == CountersOf(b)
           cc == CountersOf(c)
       IN \A i \in DOMAIN cc : CounterSum(ca[i], cb[i]) = Range(cc[i])

\* C20: the counts of every table are the sum of what each entry adds by
\* itself: the entries in any other order give the same counts, and so do
\* the counts of any two groups the entries are split into, added up.
C20_CountsAreSums ==
    TrendsDone =>
        /\ \A p \in Perms(DOMAIN call.news) :
               \E c \in {count_entries(NoCounts, Arrange(call.news, p),
                                       call.now, AnyOrder)} :
                   SameCounts(c, call.counts)
        /\ \A G \in SUBSET DOMAIN call.news :
               \E a \in {count_entries(NoCounts, Group(call.news, G),
                                       call.now, AnyOrder)},
                  b \in {count_entries(NoCounts,
                                       Group(call.news, DOMAIN call.news \ G),
                                       call.now, AnyOrder)} :
                   SumsTo(a, b, call.counts)

\* Two different entries of one day that share a keyword, a category, a CVE
\* and an actor have been counted.
C20_Witness ==
    /\ TrendsDone /\ Len(call.news) = 2 /\ call.news[1] # call.news[2]
    /\ CountOf(call.counts.daily_counter, call.now) = 2
    /\ CountOf(call.counts.keywords["24h"], "exploit") = 2
    /\ CountOf(call.counts.categories["24h"], "malware") = 2
    /\ CountOf(call.counts.cves["7d"], "CVE-2024-1234") = 2
    /\ CountOf(call.counts.threat_actor_daily_names, <<call.now, "Akira">>) = 2

-----------------------------------------------------------------------------
(* Claims about the store an ingestion run leaves, checked under SpecIngest *)

UniqueLinks(items) ==
    \A i, j \in DOMAIN items : items[i].link = items[j].link => i = j

\* C22: after an ingestion run the persisted Recency Store holds no two
\* items with the same link, every item in it has a non-empty link, and
\* total_items is the number of items, whatever the previous store held and
\* however many fetched entries share a link.
C22_StoreWellFormed ==
    IngestDone =>
        /\ recent.kind = "store"
        /\ UniqueLinks(recent.items)
        /\ \A x \in Range(recent.items) : Truthy(x.link)
        /\ recent.total_items = Len(recent.items)

\* A run whose previous store held one link twice, within the window, and
\* whose feeds brought that link twice more: one item is left.
C22_Witness ==
    /\ IngestDone
    /\ call.previous.kind = "store"
    /\ Len(call.previous.items) = 2
    /\ Len(call.entries) = 2
    /\ \A x \in Range(call.previous.items) :
           /\ x.link = "a"
           /\ x.published_ts # NoTs /\ x.published_ts[1] >= IngestCutoff
    /\ \A e \in Range(call.entries) : e.link = "a" /\ ~skipped(e, IngestCutoff)
    /\ call.entries[1] # call.entries[2]
    /\ recent.total_items = 1

\* A published_ts that is the time of an instant: a number, and one that
\* datetime.fromtimestamp converts.
KnownTs(x) ==
    x.published_ts # NoTs /\ ~FromTimestampRaises(x.published_ts[1])

\* The item at place i of the previous store is carried over: the store
\* holds its link, with the item itself or with an arrival under the same
\* link that took its place (a later item of the previous store or an entry
\* of the feeds).
CarriedOver(i) ==
    LET x == call.previous.items[i]
    IN \E y \in Range(recent.items) :
           /\ y.link = x.link
           /\ \/ y = x
              \/ \E j \in DOMAIN call.previous.items :
                     j > i /\ call.previous.items[j] = y
              \/ y \in Range(items_of(call.entries))

=============================================================================
